---- MODULE Spec2Model ----
(***************************************************************************)
(* SSH Config Auditor: the audit pipeline of SSHConfigAuditor              *)
(* (auditor/checks/ssh_config_checks.py), the helpers of                   *)
(* auditor/utils/parser.py and the POST /audit adapter of auditor/api.py.  *)
(*                                                                         *)
(* Python strings are modelled as sequences of one-character strings, so   *)
(* that splitting, regex matching, strip(), lower() and int() are computed *)
(* character by character.  Str turns such a sequence into a TLA+ string;  *)
(* it is used for dictionary keys and for the labels of the report.        *)
(* The alphabet is ASCII: letters, digits, punctuation, and the whitespace  *)
(* characters space, tab, newline, carriage return and form feed.          *)
(***************************************************************************)
EXTENDS Integers, Sequences, FiniteSets, TLC

VARIABLES
    pc,           \* position in audit_ssh_config / the adapter
    password,     \* self.password
    key_file,     \* self.key_file
    fault,        \* the step that raised and the exception class, or NoFault
    exc,          \* the exception currently propagating, "none" if none
    trace,        \* resource events so far: connect, sftp_open, sftp_close, client_close
    config_data,  \* the text handed to parse_sshd_config
    config_dict,  \* the parsed mapping  key |-> value
    results,      \* the report  key |-> label
    http_status,  \* status of the POST /audit answer, 0 while none was sent
    lines,        \* (parser runs) the lines of the text, noise included
    base          \* (parser runs) the same lines without the noise lines

vars == <<pc, password, key_file, fault, exc, trace, config_data, config_dict,
          results, http_status, lines, base>>

-----------------------------------------------------------------------------
(* Characters and strings *)

UpperSeq == <<"A", "B", "C", "D", "E", "F", "G", "H", "I", "J", "K", "L", "M",
              "N", "O", "P", "Q", "R", "S", "T", "U", "V", "W", "X", "Y", "Z">>
LowerSeq == <<"a", "b", "c", "d", "e", "f", "g", "h", "i", "j", "k", "l", "m",
              "n", "o", "p", "q", "r", "s", "t", "u", "v", "w", "x", "y", "z">>
DigitSeq == <<"0", "1", "2", "3", "4", "5", "6", "7", "8", "9">>

Range(s) == {s[i] : i \in DOMAIN s}

UpperChars == Range(UpperSeq)
DigitChars == Range(DigitSeq)
AlnumChars == Range(UpperSeq) \cup Range(LowerSeq) \cup Range(DigitSeq)
SpaceChars == {" ", "\t", "\n", "\r", "\f"}

\* [A-Za-z0-9]
IsAlnum(c) == c \in AlnumChars

\* \s of the regex and the characters str.strip() removes
IsSpace(c) == c \in SpaceChars

IsDigit(c) == c \in DigitChars

DigitVal(c) == (CHOOSE i \in DOMAIN DigitSeq : DigitSeq[i] = c) - 1

RECURSIVE Str(_)
Str(s) == IF s = <<>> THEN "" ELSE Head(s) \o Str(Tail(s))

\* the empty dict {}
EmptyDict == [k \in {} |-> ""]

\* d[k] = v
DictSet(d, k, v) == [x \in DOMAIN d \cup {k} |-> IF x = k THEN v ELSE d[x]]

\* d.get(k, default)
DictGet(d, k, default) == IF k \in DOMAIN d THEN d[k] ELSE default

\* str.lower() of one character, then of a string
LowerChar(c) ==
    IF c \in UpperChars
    THEN LowerSeq[CHOOSE i \in DOMAIN UpperSeq : UpperSeq[i] = c]
    ELSE c

lower(s) == [i \in DOMAIN s |-> LowerChar(s[i])]

RECURSIVE lstrip(_)
lstrip(s) == IF s # <<>> /\ IsSpace(Head(s)) THEN lstrip(Tail(s)) ELSE s

RECURSIVE rstrip(_)
rstrip(s) ==
    IF s # <<>> /\ IsSpace(s[Len(s)]) THEN rstrip(SubSeq(s, 1, Len(s) - 1)) ELSE s

\* str.strip()
strip(s) == rstrip(lstrip(s))

\* str.split('\n'): always at least one piece
RECURSIVE split(_)
split(s) ==
    IF \E i \in DOMAIN s : s[i] = "\n"
    THEN LET i == CHOOSE i \in DOMAIN s :
                      s[i] = "\n" /\ \A j \in 1..(i - 1) : s[j] # "\n"
         IN  <<SubSeq(s, 1, i - 1)>> \o split(SubSeq(s, i + 1, Len(s)))
    ELSE <<s>>

\* "\n".join(ls)
RECURSIVE join(_)
join(ls) ==
    IF ls = <<>> THEN <<>>
    ELSE IF Len(ls) = 1 THEN ls[1]
    ELSE ls[1] \o <<"\n">> \o join(Tail(ls))

-----------------------------------------------------------------------------
(* auditor/utils/parser.py *)

\* The longest prefix of s whose characters all satisfy the class.
RECURSIVE SpanSpace(_)
SpanSpace(s) == IF s # <<>> /\ IsSpace(Head(s)) THEN 1 + SpanSpace(Tail(s)) ELSE 0

RECURSIVE SpanAlnum(_)
SpanAlnum(s) == IF s # <<>> /\ IsAlnum(Head(s)) THEN 1 + SpanAlnum(Tail(s)) ELSE 0

Drop(s, n) == SubSeq(s, n + 1, Len(s))

\* re.search(pattern, line) on a line without a newline, the pattern being:
\* start of line, any whitespace, group 1 = one or more of [A-Za-z0-9], one or
\* more whitespace, group 2 = any characters up to the end of the line.
\* The leading whitespace run is taken whole, group 1 is the following run of
\* alphanumerics, then comes the whitespace run after it, and group 2 is the
\* rest of the line, which may be empty.  Backtracking finds no other match:
\* a shorter key would be followed by an alphanumeric, not by whitespace, and
\* a shorter leading run would make the key start on whitespace.
Match(line) ==
    LET afterLead == Drop(line, SpanSpace(line))
        k         == SpanAlnum(afterLead)
        afterKey  == Drop(afterLead, k)
        w         == SpanSpace(afterKey)
    IN  IF k >= 1 /\ w >= 1
        THEN [matched |-> TRUE,
              group1 |-> SubSeq(afterLead, 1, k),
              group2 |-> Drop(afterKey, w)]
        ELSE [matched |-> FALSE, group1 |-> <<>>, group2 |-> <<>>]

\* One iteration of the loop of parse_sshd_config.
ParseLineFirstWins(d, line) ==
    LET m == Match(line)
    IN  IF m.matched /\ Str(strip(m.group1)) \notin DOMAIN d
        THEN DictSet(d, Str(strip(m.group1)), strip(m.group2))
        ELSE d

ParseLine(d, line) ==
    LET m == Match(line)
    IN  IF m.matched
        THEN DictSet(d, Str(strip(m.group1)), strip(m.group2))
        ELSE d

RECURSIVE ParseLines(_, _)
ParseLines(d, ls) ==
    IF ls = <<>> THEN d ELSE ParseLines(ParseLine(d, Head(ls)), Tail(ls))

parse_sshd_config(text) == ParseLines(EmptyDict, split(text))

(* int(s): surrounding whitespace is stripped, one sign is allowed, then
   decimal digits, single underscores allowed between digits.  Anything else
   raises ValueError, modelled as ok = FALSE. *)
RECURSIVE DigitsValue(_, _)
DigitsValue(s, acc) ==
    IF s = <<>> THEN acc
    ELSE IF Head(s) = "_" THEN DigitsValue(Tail(s), acc)
    ELSE DigitsValue(Tail(s), 10 * acc + DigitVal(Head(s)))

IntLiteralOk(b) ==
    /\ b # <<>>
    /\ \A i \in DOMAIN b : IsDigit(b[i]) \/ b[i] = "_"
    /\ IsDigit(b[1]) /\ IsDigit(b[Len(b)])
    /\ \A i \in 1..(Len(b) - 1) : ~(b[i] = "_" /\ b[i + 1] = "_")

py_int(s) ==
    LET t    == strip(s)
        neg  == t # <<>> /\ Head(t) = "-"
        body == IF t # <<>> /\ Head(t) \in {"+", "-"} THEN Tail(t) ELSE t
    IN  IF IntLiteralOk(body)
        THEN [ok |-> TRUE,
              val |-> IF neg THEN 0 - DigitsValue(body, 0) ELSE DigitsValue(body, 0)]
        ELSE [ok |-> FALSE, val |-> 0]

MinPort == 1
MaxPort == 65535

validate_ssh_port(port) ==
    LET n == py_int(port)
    IN  IF n.ok THEN MinPort <= n.val /\ n.val <= MaxPort ELSE FALSE

\* True / False / None as "True" / "False" / "None"
normalize_boolean_setting(value) ==
    LET val_lower == Str(lower(strip(value)))
    IN  IF val_lower \in {"yes", "on"} THEN "True"
        ELSE IF val_lower \in {"no", "off"} THEN "False"
        ELSE "None"

-----------------------------------------------------------------------------
(* auditor/checks/ssh_config_checks.py: the three checks *)

check_port_NoDefaultTest(config) ==
    LET port == DictGet(config, "Port", <<"2", "2">>)
    IN  IF validate_ssh_port(port)
        THEN "Secure (Port " \o Str(port) \o ")"
        ELSE "Default (Port 22)"

check_port(config) ==
    LET port == DictGet(config, "Port", <<"2", "2">>)
    IN  IF validate_ssh_port(port) /\ Str(port) # "22"
        THEN "Secure (Port " \o Str(port) \o ")"
        ELSE "Default (Port 22)"

check_password_auth(config) ==
    LET value      == DictGet(config, "PasswordAuthentication", <<"y", "e", "s">>)
        normalized == normalize_boolean_setting(value)
    IN  IF normalized = "False" THEN "Secure"
        ELSE IF normalized = "True" THEN "Insecure"
        ELSE "Unknown"

check_root_login_NoLower(config) ==
    LET value == Str(DictGet(config, "PermitRootLogin", <<"y", "e", "s">>))
    IN  IF value \in {"no", "without-password", "prohibit-password"} THEN "Secure"
        ELSE IF value = "yes" THEN "Insecure"
        ELSE "Unknown"

check_root_login(config) ==
    LET value == Str(lower(DictGet(config, "PermitRootLogin", <<"y", "e", "s">>)))
    IN  IF value \in {"no", "without-password", "prohibit-password"} THEN "Secure"
        ELSE IF value = "yes" THEN "Insecure"
        ELSE "Unknown"

-----------------------------------------------------------------------------
(* Words and lines used to build the inputs *)

K_Port == <<"P", "o", "r", "t">>
K_port == <<"p", "o", "r", "t">>
K_PasswordAuthentication ==
    <<"P", "a", "s", "s", "w", "o", "r", "d",
      "A", "u", "t", "h", "e", "n", "t", "i", "c", "a", "t", "i", "o", "n">>
K_PermitRootLogin ==
    <<"P", "e", "r", "m", "i", "t", "R", "o", "o", "t", "L", "o", "g", "i", "n">>
V_yes == <<"y", "e", "s">>
V_no == <<"n", "o">>
V_maybe == <<"m", "a", "y", "b", "e">>
V_abc == <<"a", "b", "c">>
V_22 == <<"2", "2">>
V_2200 == <<"2", "2", "0", "0">>
V_2222 == <<"2", "2", "2", "2">>
V_without_password ==
    <<"w", "i", "t", "h", "o", "u", "t", "-", "p", "a", "s", "s", "w", "o", "r", "d">>
V_prohibit_password ==
    <<"p", "r", "o", "h", "i", "b", "i", "t", "-", "p", "a", "s", "s", "w", "o", "r", "d">>
SP == <<" ">>

\* the line  "key value"
Directive(k, v) == k \o SP \o v

-----------------------------------------------------------------------------
(* SSHConfigAuditor.audit_ssh_config behind POST /audit *)

NoFault == [step |-> "none", kind |-> "none"]

\* self.password / self.key_file: None, the empty string, or a real value
PasswordValues == {"None", "", "secret"}
KeyFileValues == {"None", "", "id_rsa"}

\* Python truthiness of an optional string
Truthy(v) == v \notin {"None", ""}

\* except paramiko.SSHException: AuthenticationException derives from it,
\* socket.error, socket.timeout and UnicodeDecodeError do not.
IsSSHException(kind) == kind \in {"SSHException", "AuthenticationException"}

\* except IOError: IOError, socket.error are OSError, socket.timeout derives from it.
IsIOError(kind) == kind \in {"IOError", "socket.error", "socket.timeout"}

\* What each step of the session can raise.
KeyLoadFailures == {"SSHException", "IOError"}
ConnectFailures == {"AuthenticationException", "SSHException", "socket.error", "socket.timeout"}
OpenSftpFailures == {"SSHException"}
OpenFileFailures == {"IOError", "SSHException"}
ReadFailures == {"IOError", "SSHException", "UnicodeDecodeError"}

\* The texts the remote file can hold.
ConfigTexts ==
    { <<>>,
      join(<<Directive(K_PasswordAuthentication, V_no),
             Directive(K_PermitRootLogin, V_no),
             Directive(K_Port, V_2200)>>),
      join(<<Directive(K_Port, V_22),
             Directive(K_PasswordAuthentication, V_yes),
             Directive(K_PermitRootLogin, V_yes)>>),
      join(<<Directive(K_Port, V_abc),
             Directive(K_PermitRootLogin, V_maybe),
             Directive(K_PasswordAuthentication, V_maybe)>>),
      <<"#", " ", "x">>,
      <<"\n">> }

\* An exception raised inside the outer try, outside the inner one:
\* the handler of line 107 takes it if it is an SSHException, else it
\* propagates through the finally of line 109.
RaiseOuter(step, kind) ==
    /\ fault' = [step |-> step, kind |-> kind]
    /\ exc' = kind
    /\ pc' = IF IsSSHException(kind) THEN "except" ELSE "client_close"

\* RaiseInner without the handler of line 94: an IOError propagates like any
\* other exception.
RaiseInner_NoIOErrorHandler(step, kind) ==
    /\ fault' = [step |-> step, kind |-> kind]
    /\ exc' = kind
    /\ config_data' = config_data
    /\ pc' = "sftp_close"

\* RaiseInner with sftp.close() after the try statement instead of in its
\* finally: an exception that is not handled there skips the close.
RaiseInner_CloseNotInFinally(step, kind) ==
    /\ fault' = [step |-> step, kind |-> kind]
    /\ exc' = IF IsIOError(kind) THEN "none" ELSE kind
    /\ config_data' = IF IsIOError(kind) THEN <<>> ELSE config_data
    /\ pc' = IF IsIOError(kind) THEN "sftp_close"
             ELSE IF IsSSHException(kind) THEN "except"
             ELSE "client_close"

\* An exception raised inside the inner try (lines 91-97): IOError is
\* handled there and leaves config_data = ""; anything else propagates
\* through the finally of line 96.
RaiseInner(step, kind) ==
    /\ fault' = [step |-> step, kind |-> kind]
    /\ exc' = IF IsIOError(kind) THEN "none" ELSE kind
    /\ config_data' = IF IsIOError(kind) THEN <<>> ELSE config_data
    /\ pc' = "sftp_close"

Init ==
    /\ pc = "start"
    /\ password \in PasswordValues
    /\ key_file \in KeyFileValues
    /\ fault = NoFault
    /\ exc = "none"
    /\ trace = <<>>
    /\ config_data = <<>>
    /\ config_dict = EmptyDict
    /\ results = EmptyDict
    /\ http_status = 0
    /\ lines = <<>>
    /\ base = <<>>

\* lines 63-69, 78-79: results = {}, the client is created, the credential is chosen
Begin ==
    /\ pc = "start"
    /\ pc' = IF ~Truthy(password) /\ Truthy(key_file) THEN "load_key" ELSE "connect"
    /\ results' = EmptyDict
    /\ UNCHANGED <<password, key_file, fault, exc, trace, config_data, config_dict,
                   http_status, lines, base>>

\* line 80: paramiko.RSAKey.from_private_key_file
LoadKey ==
    /\ pc = "load_key"
    /\ \/ /\ pc' = "connect"
          /\ UNCHANGED <<fault, exc>>
       \/ \E kind \in KeyLoadFailures : RaiseOuter("load_key", kind)
    /\ UNCHANGED <<password, key_file, trace, config_data, config_dict, results,
                   http_status, lines, base>>

\* lines 70-76 and 81-87: client.connect(..., timeout=5)
Connect ==
    /\ pc = "connect"
    /\ \/ /\ pc' = "open_sftp"
          /\ trace' = Append(trace, "connect")
          /\ UNCHANGED <<fault, exc>>
       \/ /\ \E kind \in ConnectFailures : RaiseOuter("connect", kind)
          /\ UNCHANGED trace
    /\ UNCHANGED <<password, key_file, config_data, config_dict, results,
                   http_status, lines, base>>

\* line 90: client.open_sftp()
OpenSftp ==
    /\ pc = "open_sftp"
    /\ \/ /\ pc' = "open_file"
          /\ trace' = Append(trace, "sftp_open")
          /\ UNCHANGED <<fault, exc>>
       \/ /\ \E kind \in OpenSftpFailures : RaiseOuter("open_sftp", kind)
          /\ UNCHANGED trace
    /\ UNCHANGED <<password, key_file, config_data, config_dict, results,
                   http_status, lines, base>>

\* line 92: sftp.open("/etc/ssh/sshd_config", "r")
OpenFile ==
    /\ pc = "open_file"
    /\ \/ /\ pc' = "read"
          /\ UNCHANGED <<fault, exc, config_data>>
       \/ \E kind \in OpenFileFailures : RaiseInner("open_file", kind)
    /\ UNCHANGED <<password, key_file, trace, config_dict, results,
                   http_status, lines, base>>

\* line 93: config_data = remote_file.read().decode("utf-8")
ReadDecode ==
    /\ pc = "read"
    /\ \/ /\ \E text \in ConfigTexts : config_data' = text
          /\ pc' = "sftp_close"
          /\ UNCHANGED <<fault, exc>>
       \/ \E kind \in ReadFailures : RaiseInner("read", kind)
    /\ UNCHANGED <<password, key_file, trace, config_dict, results,
                   http_status, lines, base>>

\* lines 96-97: finally: sftp.close(); then on to line 99, to the handler of
\* line 107, or out through the finally of line 109
SftpClose ==
    /\ pc = "sftp_close"
    /\ trace' = Append(trace, "sftp_close")
    /\ pc' = IF exc = "none" THEN "branch"
             ELSE IF IsSSHException(exc) THEN "except"
             ELSE "client_close"
    /\ UNCHANGED <<password, key_file, fault, exc, config_data, config_dict, results,
                   http_status, lines, base>>

\* Branch without the else of lines 104-105.
Branch_NoElse ==
    /\ pc = "branch"
    /\ IF config_data # <<>>
       THEN /\ config_dict' = parse_sshd_config(config_data)
            /\ pc' = "check_port"
       ELSE /\ pc' = "client_close"
            /\ UNCHANGED config_dict
    /\ UNCHANGED <<password, key_file, fault, exc, trace, config_data, results,
                   http_status, lines, base>>

\* lines 99-100 and 104-105: if config_data: parse, else the Error entry
Branch ==
    /\ pc = "branch"
    /\ IF config_data # <<>>
       THEN /\ config_dict' = parse_sshd_config(config_data)
            /\ pc' = "check_port"
            /\ UNCHANGED results
       ELSE /\ results' = DictSet(results, "Error", "Unable to retrieve sshd_config.")
            /\ pc' = "client_close"
            /\ UNCHANGED config_dict
    /\ UNCHANGED <<password, key_file, fault, exc, trace, config_data,
                   http_status, lines, base>>

\* line 101
SetPortConfig ==
    /\ pc = "check_port"
    /\ results' = DictSet(results, "PortConfig", check_port(config_dict))
    /\ pc' = "check_password"
    /\ UNCHANGED <<password, key_file, fault, exc, trace, config_data, config_dict,
                   http_status, lines, base>>

\* line 102
SetPasswordAuthentication ==
    /\ pc = "check_password"
    /\ results' = DictSet(results, "PasswordAuthentication", check_password_auth(config_dict))
    /\ pc' = "check_root"
    /\ UNCHANGED <<password, key_file, fault, exc, trace, config_data, config_dict,
                   http_status, lines, base>>

\* line 103
SetRootLogin ==
    /\ pc = "check_root"
    /\ results' = DictSet(results, "RootLogin", check_root_login(config_dict))
    /\ pc' = "client_close"
    /\ UNCHANGED <<password, key_file, fault, exc, trace, config_data, config_dict,
                   http_status, lines, base>>

\* lines 107-108: except paramiko.SSHException as ssh_err
Except ==
    /\ pc = "except"
    /\ results' = DictSet(results, "ConnectionError", "SSH error: " \o exc)
    /\ exc' = "none"
    /\ pc' = "client_close"
    /\ UNCHANGED <<password, key_file, fault, trace, config_data, config_dict,
                   http_status, lines, base>>

\* lines 109-112: finally: client.close(); then return results, or the
\* pending exception leaves the method
ClientClose ==
    /\ pc = "client_close"
    /\ trace' = Append(trace, "client_close")
    /\ pc' = IF exc = "none" THEN "returned" ELSE "raised"
    /\ UNCHANGED <<password, key_file, fault, exc, config_data, config_dict, results,
                   http_status, lines, base>>

\* api.py lines 64-68: a returned report is answered {"status": "OK", ...}
\* (status 200), an exception becomes HTTPException(status_code=500)
HttpRespond ==
    /\ pc \in {"returned", "raised"}
    /\ http_status' = IF pc = "returned" THEN 200 ELSE 500
    /\ pc' = "responded"
    /\ UNCHANGED <<password, key_file, fault, exc, trace, config_data, config_dict,
                   results, lines, base>>

Next ==
    \/ Begin
    \/ LoadKey
    \/ Connect
    \/ OpenSftp
    \/ OpenFile
    \/ ReadDecode
    \/ SftpClose
    \/ Branch
    \/ SetPortConfig
    \/ SetPasswordAuthentication
    \/ SetRootLogin
    \/ Except
    \/ ClientClose
    \/ HttpRespond

Spec == Init /\ [][Next]_vars

-----------------------------------------------------------------------------
(* The three checks applied to arbitrary config mappings *)

\* Values a mapping may give to Port, PasswordAuthentication, PermitRootLogin.
\* parse_sshd_config only produces trimmed values; a mapping handed to a
\* check directly (as the unit tests do) can hold any string.
PortValues ==
    { V_22, V_2222, V_abc, <<"0">>, <<"1">>, <<"-", "1">>, <<>>,
      <<"7", "0", "0", "0", "0">>, <<"6", "5", "5", "3", "5">>,
      <<"6", "5", "5", "3", "6">>, <<" ", "2", "2">>, <<"0", "2", "2">>,
      <<"+", "8", "0">>, <<"2", "_", "2">>, <<"8", "0", "8", "0", "/", "t", "c", "p">> }

PasswordAuthenticationValues ==
    { V_yes, V_no, <<"Y", "E", "S">>, <<"O", "n">>, <<"o", "f", "f">>,
      <<" ", "n", "o", "\t">>, V_maybe, <<>> }

PermitRootLoginValues ==
    { V_yes, V_no, <<"Y", "e", "s">>, <<"N", "O">>, V_without_password,
      V_prohibit_password, <<"P", "r", "o", "h", "i", "b", "i", "t", "-", "P", "a", "s", "s", "w", "o", "r", "d">>,
      <<" ", "n", "o">>, <<"y", "e", "s", " ">>,
      <<"f", "o", "r", "c", "e", "d", "-", "c", "o", "m", "m", "a", "n", "d", "s", "-", "o", "n", "l", "y">>,
      <<>> }

ValuesOf(k) ==
    IF k = "Port" THEN PortValues
    ELSE IF k = "PasswordAuthentication" THEN PasswordAuthenticationValues
    ELSE PermitRootLoginValues

ConfigMappings ==
    UNION { { d \in [ks -> PortValues \cup PasswordAuthenticationValues \cup PermitRootLoginValues] :
                \A k \in ks : d[k] \in ValuesOf(k) } :
            ks \in SUBSET {"Port", "PasswordAuthentication", "PermitRootLogin"} }

InitChecks ==
    /\ pc = "checks"
    /\ config_dict \in ConfigMappings
    /\ results = EmptyDict
    /\ password = "None"
    /\ key_file = "None"
    /\ fault = NoFault
    /\ exc = "none"
    /\ trace = <<>>
    /\ config_data = <<>>
    /\ http_status = 0
    /\ lines = <<>>
    /\ base = <<>>

CallCheckPort ==
    /\ pc = "checks"
    /\ "PortConfig" \notin DOMAIN results
    /\ results' = DictSet(results, "PortConfig", check_port(config_dict))
    /\ UNCHANGED <<pc, password, key_file, fault, exc, trace, config_data, config_dict,
                   http_status, lines, base>>

CallCheckPasswordAuth ==
    /\ pc = "checks"
    /\ "PasswordAuthentication" \notin DOMAIN results
    /\ results' = DictSet(results, "PasswordAuthentication", check_password_auth(config_dict))
    /\ UNCHANGED <<pc, password, key_file, fault, exc, trace, config_data, config_dict,
                   http_status, lines, base>>

CallCheckRootLogin ==
    /\ pc = "checks"
    /\ "RootLogin" \notin DOMAIN results
    /\ results' = DictSet(results, "RootLogin", check_root_login(config_dict))
    /\ UNCHANGED <<pc, password, key_file, fault, exc, trace, config_data, config_dict,
                   http_status, lines, base>>

NextChecks ==
    \/ CallCheckPort
    \/ CallCheckPasswordAuth
    \/ CallCheckRootLogin

SpecChecks == InitChecks /\ [][NextChecks]_vars

-----------------------------------------------------------------------------
(* parse_sshd_config applied to arbitrary sequences of lines *)

MaxLines == 2
MaxNoise == 1

\* Lines of a configuration text: directives, a duplicate key, a key in
\* another case, a key alone, a key followed only by whitespace, a line with
\* surrounding whitespace and a carriage return, a line that is no directive.
TextLines ==
    { Directive(K_Port, V_22),
      Directive(K_Port, V_2222),
      Directive(K_port, <<"8", "0">>),
      K_Port,
      K_Port \o <<" ", "\t">>,
      <<" ">> \o K_Port \o <<"\t", " ", "2", "2", " ", "\r">>,
      K_Port \o <<"=", "9">> }

\* Blank lines and comment lines beginning with #.
NoiseLines ==
    { <<>>, <<" ", "\t">>, <<"#", " ">> \o Directive(K_Port, <<"1">>) }

InsertAt(s, i, x) == SubSeq(s, 1, i) \o <<x>> \o SubSeq(s, i + 1, Len(s))

InitParse ==
    /\ pc = "parse"
    /\ lines = <<>>
    /\ base = <<>>
    /\ config_data = <<>>
    /\ config_dict = parse_sshd_config(<<>>)
    /\ results = EmptyDict
    /\ password = "None"
    /\ key_file = "None"
    /\ fault = NoFault
    /\ exc = "none"
    /\ trace = <<>>
    /\ http_status = 0

\* The text gains a line at its end and is parsed.
AppendLine ==
    /\ pc = "parse"
    /\ Len(base) < MaxLines
    /\ \E l \in TextLines :
          /\ lines' = Append(lines, l)
          /\ base' = Append(base, l)
          /\ config_data' = join(lines')
          /\ config_dict' = parse_sshd_config(config_data')
    /\ UNCHANGED <<pc, password, key_file, fault, exc, trace, results, http_status>>

\* The text gains a blank or comment line anywhere and is parsed.
InsertNoise ==
    /\ pc = "parse"
    /\ Len(lines) - Len(base) < MaxNoise
    /\ \E i \in 0..Len(lines), n \in NoiseLines :
          /\ lines' = InsertAt(lines, i, n)
          /\ config_data' = join(lines')
          /\ config_dict' = parse_sshd_config(config_data')
    /\ UNCHANGED <<pc, base, password, key_file, fault, exc, trace, results, http_status>>

NextParse ==
    \/ AppendLine
    \/ InsertNoise

SpecParse == InitParse /\ [][NextParse]_vars

-----------------------------------------------------------------------------
(* Properties of audit_ssh_config and of POST /audit, under Spec *)

CheckKeys == {"PortConfig", "PasswordAuthentication", "RootLogin"}
ErrorKeys == {"ConnectionError", "Error"}

\* audit_ssh_config has returned or raised
Finished == pc \in {"returned", "raised", "responded"}

\* audit_ssh_config has returned a report
Returned == Finished /\ exc = "none"

Occurrences(e) == {i \in DOMAIN trace : trace[i] = e}

\* C1: every report audit_ssh_config returns holds exactly the three check
\* entries, or exactly one entry whose key is ConnectionError or Error; it is
\* never empty and never mixes check entries with an error entry.
C1_ReportShape ==
    Returned =>
        \/ DOMAIN results = CheckKeys
        \/ \E k \in ErrorKeys : DOMAIN results = {k}

C1_Witness ==
    /\ pc = "returned"
    /\ DOMAIN results = CheckKeys
    /\ results["PasswordAuthentication"] = "Unknown"

\* C2: whenever establishing the session fails (bad credentials, network
\* unreachable, protocol error, connection timeout), audit_ssh_config returns
\* normally and the report holds exactly the key ConnectionError.
C2_ConnectFailureIsReported ==
    (Finished /\ fault.step = "connect") =>
        /\ exc = "none"
        /\ DOMAIN results = {"ConnectionError"}

\* C3: with the session established, when reading /etc/ssh/sshd_config fails
\* because the file is absent or unreadable, or the text read is empty, the
\* report is exactly  Error -> "Unable to retrieve sshd_config."
FileUnreadable == fault.step \in {"open_file", "read"} /\ IsIOError(fault.kind)
EmptyTextRead == fault = NoFault /\ config_data = <<>>

C3_UnreadableOrEmptyGivesError ==
    (Finished /\ Occurrences("connect") # {} /\ (FileUnreadable \/ EmptyTextRead)) =>
        /\ exc = "none"
        /\ results = ("Error" :> "Unable to retrieve sshd_config.")

C3_Witness ==
    /\ pc = "returned"
    /\ fault = [step |-> "open_file", kind |-> "IOError"]
    /\ DOMAIN results = {"Error"}

\* C4: when audit_ssh_config returns or raises, the session has been closed,
\* as the last thing done, and the file-transfer subchannel, if it was opened,
\* was closed after it was opened and before the session was closed.
C4_ResourcesReleased ==
    Finished =>
        /\ Occurrences("client_close") = {Len(trace)}
        /\ \A o \in Occurrences("sftp_open") :
              \E c \in Occurrences("sftp_close") : o < c /\ c < Len(trace)

C4_Witness ==
    /\ pc = "raised"
    /\ fault = [step |-> "read", kind |-> "UnicodeDecodeError"]
    /\ Occurrences("sftp_open") # {}

\* C5: POST /audit answers 500 whenever the report holds a ConnectionError or
\* Error key, and 200 otherwise.
C5_ErrorReportAnswered500 ==
    (pc = "responded" /\ exc = "none") =>
        http_status = IF DOMAIN results \cap ErrorKeys # {} THEN 500 ELSE 200

-----------------------------------------------------------------------------
(* Properties of the three checks, under SpecChecks *)

\* C6: a config mapping without the key PasswordAuthentication gets "Unknown"
\* from check_password_auth.
C6_AbsentPasswordAuthIsUnknown ==
    ("PasswordAuthentication" \in DOMAIN results
        /\ "PasswordAuthentication" \notin DOMAIN config_dict) =>
        results["PasswordAuthentication"] = "Unknown"

\* Two characters that are equal up to the case of a letter.
SameLetter(c, d) ==
    \/ c = d
    \/ \E i \in DOMAIN UpperSeq : {c, d} = {UpperSeq[i], LowerSeq[i]}

\* v equals the word w compared case-insensitively
EqualsIgnoringCase(v, w) ==
    /\ Len(v) = Len(w)
    /\ \A i \in DOMAIN v : SameLetter(v[i], w[i])

NamedPortCases ==
    << <<V_22, "Default (Port 22)">>,
       <<V_abc, "Default (Port 22)">>,
       <<<<"0">>, "Default (Port 22)">>,
       <<<<"7", "0", "0", "0", "0">>, "Default (Port 22)">>,
       <<<<"6", "5", "5", "3", "6">>, "Default (Port 22)">>,
       <<<<"6", "5", "5", "3", "5">>, "Secure (Port 65535)">>,
       <<<<"1">>, "Secure (Port 1)">>,
       <<V_2222, "Secure (Port 2222)">> >>

\* C8: check_port answers "Secure (Port <value>)" exactly when the Port value
\* parses as an integer in [1, 65535] and is not the string "22"; in every
\* other case (absent, "22", non-numeric, out of range) "Default (Port 22)".
\* It always answers one of the two labels (it never raises).
C8_PortLabel ==
    "PortConfig" \in DOMAIN results =>
        LET present == "Port" \in DOMAIN config_dict
            value   == config_dict["Port"]
            n       == py_int(value)
            secure  == /\ present
                       /\ n.ok /\ n.val \in MinPort..MaxPort
                       /\ value # V_22
        IN  /\ results["PortConfig"] =
                  IF secure THEN "Secure (Port " \o Str(value) \o ")"
                  ELSE "Default (Port 22)"
            /\ ~present => results["PortConfig"] = "Default (Port 22)"
            /\ \A i \in DOMAIN NamedPortCases :
                  (present /\ value = NamedPortCases[i][1]) =>
                      results["PortConfig"] = NamedPortCases[i][2]

C8_Witness ==
    /\ "PortConfig" \in DOMAIN results
    /\ "Port" \in DOMAIN config_dict
    /\ config_dict["Port"] = <<"7", "0", "0", "0", "0">>
    /\ results["PortConfig"] = "Default (Port 22)"

-----------------------------------------------------------------------------
(* Properties of parse_sshd_config, under SpecParse *)

\* The key/value pattern, stated on the line: whitespace up to a, then one or
\* more of [A-Za-z0-9] up to b (the key), then one or more whitespace up to c;
\* the value is the rest of the line, trimmed.  PatternPairs(line) holds
\* <<key, value>> for every way the line matches.
LeadEnds(line) == {a \in 0..Len(line) : \A i \in 1..a : IsSpace(line[i])}
KeyEnds(line, a) == {b \in (a + 1)..Len(line) : \A i \in (a + 1)..b : IsAlnum(line[i])}
GapEnds(line, b) == {c \in (b + 1)..Len(line) : \A i \in (b + 1)..c : IsSpace(line[i])}

PatternPairs(line) ==
    UNION { UNION { { <<SubSeq(line, a + 1, b), strip(SubSeq(line, c + 1, Len(line)))>> :
                      c \in GapEnds(line, b) } :
                    b \in KeyEnds(line, a) } :
            a \in LeadEnds(line) }

\* C9: parse_sshd_config maps each key to the trimmed value of the last line
\* that matches the key/value pattern with that key; keys are kept as
\* written; blank and comment lines anywhere in the text change nothing.
C9_LastOccurrenceWins ==
    LET pairs == [i \in DOMAIN lines |-> PatternPairs(lines[i])]
    IN  /\ \A i \in DOMAIN lines : \A p \in pairs[i] : Str(p[1]) \in DOMAIN config_dict
        /\ \A k \in DOMAIN config_dict :
              \E i \in DOMAIN lines : \E p \in pairs[i] :
                  /\ Str(p[1]) = k
                  /\ p[2] = config_dict[k]
                  /\ \A j \in (i + 1)..Len(lines) : \A q \in pairs[j] : q[1] # p[1]
        /\ config_dict = parse_sshd_config(join(base))

C9_Witness ==
    /\ base = <<Directive(K_Port, V_22), Directive(K_Port, V_2222)>>
    /\ Len(lines) = 3
    /\ lines[2] \in NoiseLines
    /\ config_dict = ("Port" :> V_2222)

\* C10: a line with a key and no value (the key alone, or followed only by
\* whitespace) is skipped, so every value of the returned mapping is a
\* non-empty string.
C10_NoEmptyValue ==
    \A k \in DOMAIN config_dict : config_dict[k] # <<>>

====
